---- MODULE Spec2Model ----
(***************************************************************************)
(* Model of spm_sp_setup (src/unnamed/part_000): the set-up of the Secure  *)
(* Partition context, its translation regime and the boot information      *)
(* buffer shared between EL3 and S-EL0.                                     *)
(*                                                                         *)
(* Memory is an array of cells addressed by a machine word of AddrBits     *)
(* bits; uintptr_t arithmetic is arithmetic modulo 2^AddrBits.  One cell   *)
(* holds one field of a structure, so sizeof is counted in fields.         *)
(***************************************************************************)
EXTENDS Integers, Sequences, FiniteSets, TLC

(* ------------------------------ bounds -------------------------------- *)

\* Width of uintptr_t.
AddrBits == 5

\* Largest PLAT_SPM_BUF_SIZE tried for a buffer low in the address space.
MaxBufSize == 8

\* Width of the linear_id field of a MP information record.
LinearIdBits == 4

(* ------------------------- machine arithmetic ------------------------- *)

AddrSpace == 2 ^ AddrBits

UINTPTR_MAX == AddrSpace - 1

Addr == 0 .. UINTPTR_MAX

\* A value as a uintptr_t.
Wrap(x) == x % AddrSpace

NULL == 0

(* ------------------------- platform constants ------------------------- *)

PLATFORM_CORE_COUNT == 2

Cores == 0 .. (PLATFORM_CORE_COUNT - 1)

BL32_BASE == 64

PLAT_SPM_COOKIE_0 == 170

PLAT_SPM_COOKIE_1 == 187

PLAT_SP_IMAGE_STACK_BASE == 96

PLAT_SP_IMAGE_STACK_PCPU_SIZE == 16

\* xlat_arch_get_max_supported_granule_size(), in cells.
MAX_GRANULE == 4

\* sizeof(secure_partition_boot_info_t): the fields num_cpus and mp_info.
BootInfoSize == 2

OFF_NUM_CPUS == 0

OFF_MP_INFO == 1

\* sizeof(secure_partition_mp_info_t): the fields mpidr, linear_id, flags.
MpInfoSize == 3

OFF_MPIDR == 0

OFF_LINEAR_ID == 1

OFF_FLAGS == 2

MP_INFO_FLAG_PRIMARY_CPU == 1

\* A flag bit other than the primary-core bit.
MP_INFO_FLAG_OTHER == 2

\* Address of the platform port's own MP information array.
PlatMpAddr == 4

\* A base low in the address space, far from its top.
LowBase == 12

(* ------------------------ platform collaborators ---------------------- *)

\* The affinity identifier (MPIDR) of core c.
CoreMpidr(c) == 16 + c

\* An affinity identifier no core of the platform has.
BadMpidr == 99

Mpidrs == {CoreMpidr(c) : c \in Cores} \cup {BadMpidr}

\* int plat_core_pos_by_mpidr(u_register_t mpidr): the linear index, or -1.
plat_core_pos_by_mpidr(mpidr) ==
    IF \E c \in Cores : CoreMpidr(c) = mpidr
    THEN CHOOSE c \in Cores : CoreMpidr(c) = mpidr
    ELSE -1

\* unsigned int plat_my_core_pos(void), on core c.
plat_my_core_pos(c) == c

(* --------------------------- SCTLR_EL1 bits --------------------------- *)

SctlrEnableSet ==
    {"UCI", "WXN", "NTWI", "NTWE", "UCT", "DZE", "SA0", "C", "I", "M"}

SctlrClearSet == {"E0E", "A", "UMA"}

\* Bits of SCTLR_EL1 that the code names in neither set.
SctlrOtherBits == {"SA", "EE"}

SctlrBits == SctlrEnableSet \cup SctlrClearSet \cup SctlrOtherBits

(* ------------------------------- state -------------------------------- *)

VARIABLES
    cfg,        \* build flag and platform constants
    plat_mp,    \* the platform port's MP information array, once read
    callers,    \* the cores on which the boot code calls spm_sp_setup
    pc,         \* per core: the next step of spm_sp_setup
    ctx,        \* per core: sp_ctx (cpu context and translation context)
    loc,        \* per core: the local variables of spm_sp_setup
    wlog,       \* per core: the addresses this invocation has written
    mem         \* memory, shared by all cores

vars == <<cfg, plat_mp, callers, pc, ctx, loc, wlog, mem>>

ENABLE_ASSERTIONS == cfg.ENABLE_ASSERTIONS

PLAT_SPM_BUF_BASE == cfg.PLAT_SPM_BUF_BASE

PLAT_SPM_BUF_SIZE == cfg.PLAT_SPM_BUF_SIZE

PLAT_SP_IMAGE_NS_BUF_BASE == cfg.PLAT_SP_IMAGE_NS_BUF_BASE

PLAT_SP_IMAGE_NS_BUF_SIZE == cfg.PLAT_SP_IMAGE_NS_BUF_SIZE

\* What plat_get_secure_partition_boot_info(NULL) returns.
plat_boot_info == cfg.boot_info

(* --------------------------- input domains ---------------------------- *)

\* Distances of a buffer base from the top of the address space.
TopGaps == {1, BootInfoSize, BootInfoSize + MpInfoSize}

\* The <<PLAT_SPM_BUF_BASE, PLAT_SPM_BUF_SIZE>> pairs tried: buffers low in
\* the address space, and buffers that end near, at or past its top.
BufConfigs ==
    {<<LowBase, s>> : s \in 0 .. MaxBufSize}
    \cup UNION {{<<AddrSpace - k, s>> : s \in {k - 1, k, k + 1}} : k \in TopGaps}

\* A <<PLAT_SP_IMAGE_NS_BUF_BASE, PLAT_SP_IMAGE_NS_BUF_SIZE>> pair aligned to
\* the maximum granule.
AlignedNsBuf == <<2 * MAX_GRANULE, 2 * MAX_GRANULE>>

\* Pairs with a misaligned base, and with a misaligned size.
MisalignedNsBufs ==
    {<<2 * MAX_GRANULE + 1, 2 * MAX_GRANULE>>,
     <<2 * MAX_GRANULE, 2 * MAX_GRANULE + 2>>}

\* A buffer that holds the boot information of every core.
RoomyBuf == <<LowBase, BootInfoSize + PLATFORM_CORE_COUNT * MpInfoSize>>

NullBootInfo == [isnull |-> TRUE, num_cpus |-> 0, mp_info |-> NULL]

\* The boot information records a platform port may return.
BootInfos ==
    {NullBootInfo}
    \cup {[isnull |-> FALSE, num_cpus |-> n, mp_info |-> p] :
            n \in 0 .. (PLATFORM_CORE_COUNT + 1), p \in {NULL, PlatMpAddr}}

\* The MP information records a platform port may supply.
MpRecords ==
    [mpidr : Mpidrs, linear_id : {0},
     flags : {0, MP_INFO_FLAG_PRIMARY_CPU, MP_INFO_FLAG_OTHER}]

Config(a, b, ns, bi) ==
    [ENABLE_ASSERTIONS |-> a,
     PLAT_SPM_BUF_BASE |-> b[1], PLAT_SPM_BUF_SIZE |-> b[2],
     PLAT_SP_IMAGE_NS_BUF_BASE |-> ns[1], PLAT_SP_IMAGE_NS_BUF_SIZE |-> ns[2],
     boot_info |-> bi]

\* The builds and platforms tried: every buffer with an aligned NS buffer,
\* and every misaligned NS buffer with a roomy buffer.
Configs ==
    {Config(a, b, AlignedNsBuf, bi) :
        a \in BOOLEAN, b \in BufConfigs, bi \in BootInfos}
    \cup {Config(a, RoomyBuf, ns, bi) :
        a \in BOOLEAN, ns \in MisalignedNsBufs, bi \in BootInfos}

(* ------------------------------ helpers ------------------------------- *)

\* The cells size cells long from address a (addresses are machine words).
Range(a, size) == {Wrap(a + i) : i \in 0 .. (size - 1)}

\* memcpy(dest, vals, Len(vals)) on memory m.
MemCopy(m, dest, vals) ==
    [x \in Addr |->
        IF x \in Range(dest, Len(vals))
        THEN vals[CHOOSE i \in 1 .. Len(vals) : Wrap(dest + i - 1) = x]
        ELSE m[x]]

\* A secure_partition_boot_info_t as its cells.
BootInfoCells(bi) == <<bi.num_cpus, bi.mp_info>>

\* A secure_partition_mp_info_t as its cells.
MpInfoCells(r) == <<r.mpidr, r.linear_id, r.flags>>

RECURSIVE ArrayCells(_)
\* An array of secure_partition_mp_info_t as its cells.
ArrayCells(s) ==
    IF s = <<>> THEN <<>> ELSE MpInfoCells(Head(s)) \o ArrayCells(Tail(s))

\* The arrays that continue s up to n records.
ExtendTo(s, n) ==
    IF Len(s) >= n THEN {s}
    ELSE {s \o t : t \in [1 .. (n - Len(s)) -> MpRecords]}

\* The first n records of s.
Prefix(s, n) == [i \in 1 .. n |-> s[i]]

\* An int stored into the linear_id field.
ToLinearId(x) == x % (2 ^ LinearIdBits)

\* flags | MP_INFO_FLAG_PRIMARY_CPU
OrPrimary(flags) ==
    IF (flags % (2 * MP_INFO_FLAG_PRIMARY_CPU)) >= MP_INFO_FLAG_PRIMARY_CPU
    THEN flags
    ELSE flags + MP_INFO_FLAG_PRIMARY_CPU

\* (x & max_granule_mask) == 0
GranuleAligned(x) == (x % MAX_GRANULE) = 0

(* ------------------------------- Init --------------------------------- *)

ZeroArgs == [i \in 0 .. 7 |-> 0]

\* entry_point_info_t ep_info = {0}
ZeroEpInfo == [pc |-> 0, spsr |-> "0", attr |-> {}, args |-> ZeroArgs]

\* CPACR_EL1 before the set-up.
PriorCpacr == [fpen |-> "TRAP_ALL", tta |-> 0, zen |-> "TRAP_ALL"]

\* The values of CPACR_EL1: the FPEN and ZEN fields trap at EL1 and EL0, at
\* EL0 alone, or not at all; TTA traps the trace registers or does not.
CpacrValues ==
    [fpen : {"TRAP_ALL", "TRAP_EL0", "TRAP_NONE"}, tta : {0, 1},
     zen : {"TRAP_ALL", "TRAP_EL0", "TRAP_NONE"}]

InitCtx(sctlr) ==
    [ep_info |-> ZeroEpInfo, sp_el0 |-> 0, sctlr |-> sctlr,
     cpacr |-> PriorCpacr, sysregs_written |-> {},
     regions |-> {}, tables_ready |-> FALSE]

InitLoc ==
    [shared_buf_ptr |-> NULL, sp_boot_info |-> NullBootInfo,
     sp_mp_info |-> NULL, mp_src |-> <<>>, index |-> 0, failed |-> "none",
     sctlr_el1 |-> {}, cpacr_before |-> PriorCpacr]

InitCommon ==
    /\ plat_mp = <<>>
    /\ pc = [c \in Cores |-> "idle"]
    /\ loc = [c \in Cores |-> InitLoc]
    /\ wlog = [c \in Cores |-> {}]
    /\ mem = [a \in Addr |-> 0]

\* One core runs spm_sp_setup, once.
Init ==
    /\ cfg \in Configs
    /\ callers \in {{c} : c \in Cores}
    /\ ctx = [c \in Cores |-> InitCtx(SctlrOtherBits \cup SctlrClearSet)]
    /\ InitCommon

(* ----------------------- entry point and context ---------------------- *)

\* The boot code calls spm_sp_setup(sp_ctx) on core c.
Invoke(c) ==
    /\ pc[c] = "idle"
    /\ c \in callers
    /\ pc' = [pc EXCEPT ![c] = "ep_info"]
    /\ UNCHANGED <<cfg, plat_mp, callers, ctx, loc, wlog, mem>>

\* Mutant of EntryPointInfo: the buffer's base and size in each other's slot.
EntryPointInfoSwapped ==
    [pc |-> BL32_BASE,
     spsr |-> "SPSR_64(MODE_EL0, MODE_SP_EL0, DISABLE_ALL_EXCEPTIONS)",
     attr |-> {"SECURE", "EP_ST_ENABLE"},
     args |-> [ZeroArgs EXCEPT ![0] = PLAT_SPM_BUF_SIZE,
                               ![1] = PLAT_SPM_BUF_BASE,
                               ![2] = PLAT_SPM_COOKIE_0,
                               ![3] = PLAT_SPM_COOKIE_1]]

\* ep_info as spm_sp_setup fills it in before cm_setup_context.
EntryPointInfo ==
    [pc |-> BL32_BASE,
     spsr |-> "SPSR_64(MODE_EL0, MODE_SP_EL0, DISABLE_ALL_EXCEPTIONS)",
     attr |-> {"SECURE", "EP_ST_ENABLE"},
     args |-> [ZeroArgs EXCEPT ![0] = PLAT_SPM_BUF_BASE,
                               ![1] = PLAT_SPM_BUF_SIZE,
                               ![2] = PLAT_SPM_COOKIE_0,
                               ![3] = PLAT_SPM_COOKIE_1]]

\* Build ep_info and apply it: cm_setup_context(ctx, &ep_info).
SetupEntryPoint(c) ==
    /\ pc[c] = "ep_info"
    /\ ctx' = [ctx EXCEPT ![c].ep_info = EntryPointInfo]
    /\ pc' = [pc EXCEPT ![c] = "sp_el0"]
    /\ UNCHANGED <<cfg, plat_mp, callers, loc, wlog, mem>>

\* write_ctx_reg(get_gpregs_ctx(ctx), CTX_GPREG_SP_EL0, ...)
WriteSpEl0(c) ==
    /\ pc[c] = "sp_el0"
    /\ ctx' = [ctx EXCEPT ![c].sp_el0 =
                  PLAT_SP_IMAGE_STACK_BASE + PLAT_SP_IMAGE_STACK_PCPU_SIZE]
    /\ pc' = [pc EXCEPT ![c] = "granule"]
    /\ UNCHANGED <<cfg, plat_mp, callers, loc, wlog, mem>>

(* ------------------------- translation tables ------------------------- *)

\* Mutant of GranuleFailure: the size is not checked.
GranuleFailureBaseOnly ==
    IF ENABLE_ASSERTIONS /\ ~GranuleAligned(PLAT_SP_IMAGE_NS_BUF_BASE)
    THEN "ns_buf_base" ELSE "none"

\* The first of the two granule assertions that fails, or "none".
GranuleFailure ==
    IF ~ENABLE_ASSERTIONS THEN "none"
    ELSE IF ~GranuleAligned(PLAT_SP_IMAGE_NS_BUF_BASE) THEN "ns_buf_base"
    ELSE IF ~GranuleAligned(PLAT_SP_IMAGE_NS_BUF_SIZE) THEN "ns_buf_size"
    ELSE "none"

\* #if ENABLE_ASSERTIONS: base and size against the maximum granule.
CheckGranule(c) ==
    /\ pc[c] = "granule"
    /\ IF GranuleFailure = "none"
       THEN /\ pc' = [pc EXCEPT ![c] = "mmap"]
            /\ loc' = loc
       ELSE /\ pc' = [pc EXCEPT ![c] = "abort"]
            /\ loc' = [loc EXCEPT ![c].failed = GranuleFailure]
    /\ UNCHANGED <<cfg, plat_mp, callers, ctx, wlog, mem>>

\* mmap_add_region_ctx, mmap_add_ctx, init_xlat_tables_ctx.
AddRegions(c) ==
    /\ pc[c] = "mmap"
    /\ ctx' = [ctx EXCEPT
                 ![c].regions = {"sel1_exception_vectors",
                                 "plat_get_secure_partition_mmap"},
                 ![c].tables_ready = TRUE]
    /\ pc' = [pc EXCEPT ![c] = "mmu_regs"]
    /\ UNCHANGED <<cfg, plat_mp, callers, loc, wlog, mem>>

MmuRegs == {"MAIR_EL1", "TCR_EL1", "TTBR0_EL1"}

\* setup_mmu_cfg, then the three write_ctx_reg of its results.
WriteMmuRegs(c) ==
    /\ pc[c] = "mmu_regs"
    /\ ctx' = [ctx EXCEPT ![c].sysregs_written = @ \cup MmuRegs]
    /\ pc' = [pc EXCEPT ![c] = "sctlr"]
    /\ UNCHANGED <<cfg, plat_mp, callers, loc, wlog, mem>>

\* Mutant of SctlrValue: the clear set is not cleared.
SctlrValueNoClear(prior) == prior \cup SctlrEnableSet

\* sctlr_el1 |= (enable set); sctlr_el1 &= ~(clear set).
SctlrValue(prior) == (prior \cup SctlrEnableSet) \ SctlrClearSet

\* Read, update and write back SCTLR_EL1.
SetupSctlr(c) ==
    /\ pc[c] = "sctlr"
    /\ loc' = [loc EXCEPT ![c].sctlr_el1 = ctx[c].sctlr]
    /\ ctx' = [ctx EXCEPT ![c].sctlr = SctlrValue(loc'[c].sctlr_el1),
                          ![c].sysregs_written = @ \cup {"SCTLR_EL1"}]
    /\ pc' = [pc EXCEPT ![c] = "sysregs"]
    /\ UNCHANGED <<cfg, plat_mp, callers, wlog, mem>>

\* Mutant of CpacrValue: the ZEN field is written as ones too.
CpacrValueZenOnes == [fpen |-> "TRAP_NONE", tta |-> 0, zen |-> "TRAP_NONE"]

\* CPACR_EL1_FPEN(CPACR_EL1_FP_TRAP_NONE): every other field is zero, which
\* is no trap of the trace registers (TTA) and the trap of SVE at EL1 and
\* EL0 (ZEN).
CpacrValue == [fpen |-> "TRAP_NONE", tta |-> 0, zen |-> "TRAP_ALL"]

\* VBAR_EL1, CNTKCTL_EL1 and CPACR_EL1.  cpacr_before records the value the
\* context held when CPACR_EL1 was written.
WriteOtherSysregs(c) ==
    /\ pc[c] = "sysregs"
    /\ loc' = [loc EXCEPT ![c].cpacr_before = ctx[c].cpacr]
    /\ ctx' = [ctx EXCEPT
                 ![c].cpacr = CpacrValue,
                 ![c].sysregs_written =
                     @ \cup {"VBAR_EL1", "CNTKCTL_EL1", "CPACR_EL1"}]
    /\ pc' = [pc EXCEPT ![c] = "validate_buf"]
    /\ UNCHANGED <<cfg, plat_mp, callers, wlog, mem>>

(* ------------------------- boot information --------------------------- *)

\* PLAT_SPM_BUF_BASE + PLAT_SPM_BUF_SIZE, as the machine computes it.
BufEnd == Wrap(PLAT_SPM_BUF_BASE + PLAT_SPM_BUF_SIZE)

\* (uintptr_t)shared_buf_ptr + sizeof(secure_partition_boot_info_t)
\*     <= (PLAT_SPM_BUF_BASE + PLAT_SPM_BUF_SIZE)
RecordFitsCheck(ptr) == Wrap(ptr + BootInfoSize) <= BufEnd

\* PLAT_SPM_BUF_BASE <= (UINTPTR_MAX - PLAT_SPM_BUF_SIZE + 1)
NoOverflowCheck ==
    PLAT_SPM_BUF_BASE <= Wrap(UINTPTR_MAX - PLAT_SPM_BUF_SIZE + 1)

\* The first of the two buffer assertions that fails, or "none".
BufFailure(ptr) ==
    IF ~ENABLE_ASSERTIONS THEN "none"
    ELSE IF ~RecordFitsCheck(ptr) THEN "record_fits"
    ELSE IF ~NoOverflowCheck THEN "no_overflow"
    ELSE "none"

\* shared_buf_ptr = PLAT_SPM_BUF_BASE and the two assertions on the buffer.
ValidateBuf(c) ==
    /\ pc[c] = "validate_buf"
    /\ LET f == BufFailure(PLAT_SPM_BUF_BASE) IN
       /\ loc' = [loc EXCEPT ![c].shared_buf_ptr = PLAT_SPM_BUF_BASE,
                             ![c].failed = f]
       /\ pc' = [pc EXCEPT ![c] =
                    IF f = "none" THEN "get_boot_info" ELSE "abort"]
    /\ UNCHANGED <<cfg, plat_mp, callers, ctx, wlog, mem>>

\* Mutant of BootInfoFailure: the record is not checked.
BootInfoFailureNever(bi) == "none"

\* assert(sp_boot_info != NULL): "boot_info_null" when it fails.
BootInfoFailure(bi) ==
    IF ENABLE_ASSERTIONS /\ bi.isnull THEN "boot_info_null" ELSE "none"

\* sp_boot_info = plat_get_secure_partition_boot_info(NULL), asserted
\* not to be NULL.
GetBootInfo(c) ==
    /\ pc[c] = "get_boot_info"
    /\ LET f == BootInfoFailure(plat_boot_info) IN
       /\ loc' = [loc EXCEPT ![c].sp_boot_info = plat_boot_info,
                             ![c].failed = f]
       /\ pc' = [pc EXCEPT ![c] =
                    IF f = "none" THEN "copy_record" ELSE "abort"]
    /\ UNCHANGED <<cfg, plat_mp, callers, ctx, wlog, mem>>

\* memcpy(shared_buf_ptr, sp_boot_info, sizeof(*sp_boot_info)) of record bi.
CopyRecordOf(c, bi) ==
    /\ mem' = MemCopy(mem, loc[c].shared_buf_ptr, BootInfoCells(bi))
    /\ wlog' = [wlog EXCEPT
                  ![c] = @ \cup Range(loc[c].shared_buf_ptr, BootInfoSize)]
    /\ loc' = [loc EXCEPT ![c].sp_boot_info = bi]
    /\ pc' = [pc EXCEPT ![c] = "check_mp_info"]

\* The boot information record that lies in memory m at address a.
BootInfoAt(m, a) ==
    [isnull |-> TRUE, num_cpus |-> m[Wrap(a + OFF_NUM_CPUS)],
     mp_info |-> m[Wrap(a + OFF_MP_INFO)]]

\* Copy the boot information into the shared buffer.  A null sp_boot_info
\* (reached only without assertions) makes the read undefined: it faults,
\* or it finds whatever lies at address 0.
CopyRecord(c) ==
    /\ pc[c] = "copy_record"
    /\ IF loc[c].sp_boot_info.isnull
       THEN \/ /\ pc' = [pc EXCEPT ![c] = "fault"]
               /\ loc' = [loc EXCEPT ![c].failed = "null_boot_info_read"]
               /\ UNCHANGED <<wlog, mem>>
            \/ CopyRecordOf(c, BootInfoAt(mem, NULL))
       ELSE CopyRecordOf(c, loc[c].sp_boot_info)
    /\ UNCHANGED <<cfg, plat_mp, callers, ctx>>

\* Mutant of MpInfoFailure: the pointer is not checked.
MpInfoFailureNever(p) == "none"

\* assert(sp_mp_info != NULL): "mp_info_null" when it fails.
MpInfoFailure(p) ==
    IF ENABLE_ASSERTIONS /\ p = NULL THEN "mp_info_null" ELSE "none"

\* sp_mp_info = ((secure_partition_boot_info_t *) shared_buf_ptr)->mp_info,
\* asserted not to be NULL.
CheckMpInfo(c) ==
    /\ pc[c] = "check_mp_info"
    /\ LET p == mem[Wrap(loc[c].shared_buf_ptr + OFF_MP_INFO)]
           f == MpInfoFailure(p) IN
       /\ loc' = [loc EXCEPT ![c].sp_mp_info = p, ![c].failed = f]
       /\ pc' = [pc EXCEPT ![c] =
                    IF f = "none" THEN "patch_pointer" ELSE "abort"]
    /\ UNCHANGED <<cfg, plat_mp, callers, ctx, wlog, mem>>

\* Mutant of PatchedPointer: the size of the record is not added.
PatchedPointerNoSizeof(ptr) == ptr

\* (uintptr_t)shared_buf_ptr + sizeof(secure_partition_boot_info_t)
PatchedPointer(ptr) == Wrap(ptr + BootInfoSize)

\* Point the buffer's mp_info just after the boot information, and move
\* shared_buf_ptr there.
PatchPointer(c) ==
    /\ pc[c] = "patch_pointer"
    /\ LET field == Wrap(loc[c].shared_buf_ptr + OFF_MP_INFO) IN
       /\ mem' = [mem EXCEPT ![field] = PatchedPointer(loc[c].shared_buf_ptr)]
       /\ wlog' = [wlog EXCEPT ![c] = @ \cup {field}]
       /\ loc' = [loc EXCEPT ![c].shared_buf_ptr = mem'[field]]
    /\ pc' = [pc EXCEPT ![c] = "validate_count"]
    /\ UNCHANGED <<cfg, plat_mp, callers, ctx>>

\* sp_boot_info->num_cpus <= PLATFORM_CORE_COUNT
CountCheck(n) == n <= PLATFORM_CORE_COUNT

\* (uintptr_t)shared_buf_ptr <= (PLAT_SPM_BUF_BASE + PLAT_SPM_BUF_SIZE -
\*     (sp_boot_info->num_cpus * sizeof(*sp_mp_info)))
SpaceCheck(ptr, n) ==
    ptr <= Wrap(PLAT_SPM_BUF_BASE + PLAT_SPM_BUF_SIZE - (n * MpInfoSize))

\* Mutant of CountFailure: the room left in the buffer is not checked.
CountFailureCountOnly(ptr, n) ==
    IF ENABLE_ASSERTIONS /\ ~CountCheck(n) THEN "num_cpus" ELSE "none"

\* Mutant of CountFailure: the two checks are made in every build.
CountFailureEveryBuild(ptr, n) ==
    IF ~CountCheck(n) THEN "num_cpus"
    ELSE IF ~SpaceCheck(ptr, n) THEN "array_fits"
    ELSE "none"

\* The first of the two assertions on the core count that fails, or "none".
CountFailure(ptr, n) ==
    IF ~ENABLE_ASSERTIONS THEN "none"
    ELSE IF ~CountCheck(n) THEN "num_cpus"
    ELSE IF ~SpaceCheck(ptr, n) THEN "array_fits"
    ELSE "none"

\* The two assertions before the MP information is copied.
ValidateCount(c) ==
    /\ pc[c] = "validate_count"
    /\ LET f == CountFailure(loc[c].shared_buf_ptr,
                             loc[c].sp_boot_info.num_cpus) IN
       /\ loc' = [loc EXCEPT ![c].failed = f]
       /\ pc' = [pc EXCEPT ![c] =
                    IF f = "none" THEN "copy_array" ELSE "abort"]
    /\ UNCHANGED <<cfg, plat_mp, callers, ctx, wlog, mem>>

\* The n records that lie in memory m from address a.
RecordsAt(m, a, n) ==
    [i \in 1 .. n |->
        [mpidr |-> m[Wrap(a + (i - 1) * MpInfoSize + OFF_MPIDR)],
         linear_id |-> m[Wrap(a + (i - 1) * MpInfoSize + OFF_LINEAR_ID)],
         flags |-> m[Wrap(a + (i - 1) * MpInfoSize + OFF_FLAGS)]]]

\* memcpy(shared_buf_ptr, sp_mp_info, num_cpus * sizeof(*sp_mp_info)) of
\* the records src, then sp_mp_info = shared_buf_ptr.
CopyArrayOf(c, src) ==
    /\ mem' = MemCopy(mem, loc[c].shared_buf_ptr, ArrayCells(src))
    /\ wlog' = [wlog EXCEPT
                  ![c] = @ \cup Range(loc[c].shared_buf_ptr,
                                      Len(src) * MpInfoSize)]
    /\ loc' = [loc EXCEPT ![c].mp_src = src,
                          ![c].sp_mp_info = loc[c].shared_buf_ptr,
                          ![c].index = 0]
    /\ pc' = [pc EXCEPT ![c] = "annotate"]

\* Copy the MP information after the boot information.  The platform's
\* array is fixed the first time it is read.  A null source with a count
\* that is not zero (reached only without assertions) makes the read
\* undefined: it faults, or it finds whatever lies at address 0.
CopyArray(c) ==
    /\ pc[c] = "copy_array"
    /\ LET n == loc[c].sp_boot_info.num_cpus
           p == loc[c].sp_mp_info IN
       IF n = 0
       THEN CopyArrayOf(c, <<>>) /\ plat_mp' = plat_mp
       ELSE IF p = PlatMpAddr
       THEN \E s \in ExtendTo(plat_mp, n) :
                plat_mp' = s /\ CopyArrayOf(c, Prefix(s, n))
       ELSE IF p = NULL
       THEN /\ plat_mp' = plat_mp
            /\ \/ /\ pc' = [pc EXCEPT ![c] = "fault"]
                  /\ loc' = [loc EXCEPT ![c].failed = "null_mp_info_read"]
                  /\ UNCHANGED <<wlog, mem>>
               \/ CopyArrayOf(c, RecordsAt(mem, NULL, n))
       ELSE CopyArrayOf(c, RecordsAt(mem, p, n)) /\ plat_mp' = plat_mp
    /\ UNCHANGED <<cfg, callers, ctx>>

\* sp_mp_info[index].linear_id = plat_core_pos_by_mpidr(mpidr)
LinearIdOf(mpidr) == ToLinearId(plat_core_pos_by_mpidr(mpidr))

\* Mutant of AnnotatedFlags: every record is flagged.
AnnotatedFlagsAlways(c, linear_id, flags) == OrPrimary(flags)

\* Mutant of AnnotatedFlags: the flag is assigned, not ORed in.
AnnotatedFlagsOverwrite(c, linear_id, flags) ==
    IF plat_my_core_pos(c) = linear_id THEN MP_INFO_FLAG_PRIMARY_CPU ELSE flags

\* if (plat_my_core_pos() == linear_id) flags |= MP_INFO_FLAG_PRIMARY_CPU
AnnotatedFlags(c, linear_id, flags) ==
    IF plat_my_core_pos(c) = linear_id THEN OrPrimary(flags) ELSE flags

\* One iteration of the loop over the buffer's MP information.
AnnotateRecord(c) ==
    /\ pc[c] = "annotate"
    /\ loc[c].index < loc[c].sp_boot_info.num_cpus
    /\ LET rec == Wrap(loc[c].sp_mp_info + loc[c].index * MpInfoSize)
           mpidr == mem[Wrap(rec + OFF_MPIDR)]
           id == LinearIdOf(mpidr)
           fl == Wrap(rec + OFF_FLAGS) IN
       /\ mem' = [mem EXCEPT ![Wrap(rec + OFF_LINEAR_ID)] = id,
                             ![fl] = AnnotatedFlags(c, id, mem[fl])]
       /\ wlog' = [wlog EXCEPT
                     ![c] = @ \cup {Wrap(rec + OFF_LINEAR_ID)}
                              \cup (IF plat_my_core_pos(c) = id
                                    THEN {fl} ELSE {})]
    /\ loc' = [loc EXCEPT ![c].index = @ + 1]
    /\ UNCHANGED <<cfg, plat_mp, callers, pc, ctx>>

\* The loop ends and spm_sp_setup returns.
Return(c) ==
    /\ pc[c] = "annotate"
    /\ ~(loc[c].index < loc[c].sp_boot_info.num_cpus)
    /\ pc' = [pc EXCEPT ![c] = "done"]
    /\ UNCHANGED <<cfg, plat_mp, callers, ctx, loc, wlog, mem>>

(* --------------------------- specification ---------------------------- *)

Next ==
    \E c \in Cores :
        \/ Invoke(c)
        \/ SetupEntryPoint(c)
        \/ WriteSpEl0(c)
        \/ CheckGranule(c)
        \/ AddRegions(c)
        \/ WriteMmuRegs(c)
        \/ SetupSctlr(c)
        \/ WriteOtherSysregs(c)
        \/ ValidateBuf(c)
        \/ GetBootInfo(c)
        \/ CopyRecord(c)
        \/ CheckMpInfo(c)
        \/ PatchPointer(c)
        \/ ValidateCount(c)
        \/ CopyArray(c)
        \/ AnnotateRecord(c)
        \/ Return(c)

Spec == Init /\ [][Next]_vars

(* ------------------- several cores run the set-up --------------------- *)

\* The boot information records of a platform with n cores described.
SoundBootInfos ==
    {[isnull |-> FALSE, num_cpus |-> n, mp_info |-> PlatMpAddr] :
        n \in 1 .. PLATFORM_CORE_COUNT}

\* Every core runs spm_sp_setup, on a platform whose buffer holds the boot
\* information of every core.
InitMP ==
    /\ cfg \in {Config(a, RoomyBuf, AlignedNsBuf, bi) :
                   a \in BOOLEAN, bi \in SoundBootInfos}
    /\ callers = Cores
    /\ ctx = [c \in Cores |-> InitCtx(SctlrOtherBits \cup SctlrClearSet)]
    /\ InitCommon

SpecMP == InitMP /\ [][Next]_vars

(* ----------------- SCTLR_EL1 from any prior value --------------------- *)

\* A core about to set up SCTLR_EL1, whose context holds any value of it.
InitRegs ==
    /\ cfg = Config(TRUE, RoomyBuf, AlignedNsBuf,
                    [isnull |-> FALSE, num_cpus |-> PLATFORM_CORE_COUNT,
                     mp_info |-> PlatMpAddr])
    /\ callers \in {{c} : c \in Cores}
    /\ \E prior \in SUBSET SctlrBits :
         ctx = [c \in Cores |->
                  IF c \in callers
                  THEN [InitCtx(prior) EXCEPT
                          !.ep_info = EntryPointInfo,
                          !.sp_el0 = PLAT_SP_IMAGE_STACK_BASE
                                     + PLAT_SP_IMAGE_STACK_PCPU_SIZE,
                          !.regions = {"sel1_exception_vectors",
                                       "plat_get_secure_partition_mmap"},
                          !.tables_ready = TRUE,
                          !.sysregs_written = MmuRegs]
                  ELSE InitCtx({})]
    /\ plat_mp = <<>>
    /\ pc = [c \in Cores |-> IF c \in callers THEN "sctlr" ELSE "idle"]
    /\ loc = [c \in Cores |-> InitLoc]
    /\ wlog = [c \in Cores |-> {}]
    /\ mem = [a \in Addr |-> 0]

NextRegs == \E c \in Cores : SetupSctlr(c)

SpecRegs == InitRegs /\ [][NextRegs]_vars

(* ----------------- CPACR_EL1 from any prior value --------------------- *)

\* A core about to write the other system registers: its context holds any
\* value of CPACR_EL1, and SCTLR_EL1 as set up from a prior value.
InitCpacr ==
    /\ cfg = Config(TRUE, RoomyBuf, AlignedNsBuf,
                    [isnull |-> FALSE, num_cpus |-> PLATFORM_CORE_COUNT,
                     mp_info |-> PlatMpAddr])
    /\ callers \in {{c} : c \in Cores}
    /\ \E sctlr \in SUBSET (SctlrOtherBits \cup SctlrClearSet),
          cpacr \in CpacrValues :
         /\ ctx = [c \in Cores |->
                    IF c \in callers
                    THEN [InitCtx(SctlrValue(sctlr)) EXCEPT
                            !.ep_info = EntryPointInfo,
                            !.sp_el0 = PLAT_SP_IMAGE_STACK_BASE
                                       + PLAT_SP_IMAGE_STACK_PCPU_SIZE,
                            !.regions = {"sel1_exception_vectors",
                                         "plat_get_secure_partition_mmap"},
                            !.tables_ready = TRUE,
                            !.sysregs_written = MmuRegs \cup {"SCTLR_EL1"},
                            !.cpacr = cpacr]
                    ELSE InitCtx({})]
         /\ loc = [c \in Cores |->
                    IF c \in callers
                    THEN [InitLoc EXCEPT !.sctlr_el1 = sctlr]
                    ELSE InitLoc]
    /\ plat_mp = <<>>
    /\ pc = [c \in Cores |-> IF c \in callers THEN "sysregs" ELSE "idle"]
    /\ wlog = [c \in Cores |-> {}]
    /\ mem = [a \in Addr |-> 0]

NextCpacr == \E c \in Cores : WriteOtherSysregs(c)

SpecCpacr == InitCpacr /\ [][NextCpacr]_vars

(* ------------------------ vocabulary of the claims -------------------- *)

\* The cells of the shared buffer.
BufCells ==
    {a \in Addr : /\ PLAT_SPM_BUF_BASE <= a
                  /\ a < PLAT_SPM_BUF_BASE + PLAT_SPM_BUF_SIZE}

\* The boot information record and the records of n cores fit the buffer.
RecordsFit(n) == BootInfoSize + n * MpInfoSize <= PLAT_SPM_BUF_SIZE

\* The mp_info field of the boot information record held in the buffer.
BufMpInfoField == mem[Wrap(PLAT_SPM_BUF_BASE + OFF_MP_INFO)]

\* The MP information array the buffer's record points to.
BufArray ==
    RecordsAt(mem, BufMpInfoField, mem[Wrap(PLAT_SPM_BUF_BASE + OFF_NUM_CPUS)])

PrimarySet(flags) ==
    (flags % (2 * MP_INFO_FLAG_PRIMARY_CPU)) >= MP_INFO_FLAG_PRIMARY_CPU

\* The flag bits other than the primary-core bit.
OtherFlags(flags) ==
    IF PrimarySet(flags) THEN flags - MP_INFO_FLAG_PRIMARY_CPU ELSE flags

ResolvesToCaller(c, mpidr) ==
    plat_core_pos_by_mpidr(mpidr) = plat_my_core_pos(c)

MarshalSteps ==
    {"validate_buf", "get_boot_info", "copy_record", "check_mp_info",
     "patch_pointer", "validate_count", "copy_array", "annotate"}

\* The steps of the marshalling that follow the copy of the record.
AfterGetBootInfo ==
    {"copy_record", "check_mp_info", "patch_pointer", "validate_count",
     "copy_array", "annotate", "done", "fault"}

\* Core c has patched the pointer of the buffer's record.
AfterPatch(c) ==
    \/ pc[c] \in {"validate_count", "copy_array", "annotate", "done"}
    \/ /\ pc[c] \in {"abort", "fault"}
       /\ loc[c].failed \in {"num_cpus", "array_fits", "null_mp_info_read"}

NsBufMisaligned ==
    \/ ~((PLAT_SP_IMAGE_NS_BUF_BASE % MAX_GRANULE) = 0)
    \/ ~((PLAT_SP_IMAGE_NS_BUF_SIZE % MAX_GRANULE) = 0)

(* -------------------------------- C1 ---------------------------------- *)

\* C1: with assertions enabled, a boot information record with a MP
\* information array and num_cpus in [0, PLATFORM_CORE_COUNT], the
\* marshalling completes only if the records fit the buffer capacity, aborts
\* only if they do not, and when they do not fit no cell outside the buffer
\* has been written.
C1_CompletesIffRecordsFit ==
    \A c \in Cores :
        ( /\ ENABLE_ASSERTIONS
          /\ ~NsBufMisaligned
          /\ ~plat_boot_info.isnull
          /\ plat_boot_info.mp_info # NULL
          /\ plat_boot_info.num_cpus <= PLATFORM_CORE_COUNT )
        => /\ pc[c] = "done" => RecordsFit(plat_boot_info.num_cpus)
           /\ pc[c] = "abort" => ~RecordsFit(plat_boot_info.num_cpus)
           /\ ~RecordsFit(plat_boot_info.num_cpus) => wlog[c] \subseteq BufCells

(* -------------------------------- C2 ---------------------------------- *)

\* The records of the buffer's array that carry the primary-core flag.
PrimaryRecords == {i \in DOMAIN BufArray : PrimarySet(BufArray[i].flags)}

\* C2 as stated: after spm_sp_setup completes, exactly one record of the
\* buffer carries the primary-core flag, and its affinity identifier resolves
\* to the calling core's linear index.
C2_ExactlyOnePrimary ==
    \A c \in Cores :
        pc[c] = "done" =>
            /\ Cardinality(PrimaryRecords) = 1
            /\ \A i \in PrimaryRecords : ResolvesToCaller(c, BufArray[i].mpidr)

\* The platform's array names the calling core once, and sets no primary flag.
WellFormedInput(c) ==
    /\ Cardinality({i \in DOMAIN loc[c].mp_src :
                       ResolvesToCaller(c, loc[c].mp_src[i].mpidr)}) = 1
    /\ \A i \in DOMAIN loc[c].mp_src : ~PrimarySet(loc[c].mp_src[i].flags)

\* C2 (amended): after spm_sp_setup completes, a record of the buffer carries
\* the primary-core flag exactly when its affinity identifier resolves to the
\* calling core's linear index or the platform's record already carried the
\* flag; so exactly one record carries it, the calling core's, when the
\* platform's array names the calling core once and sets no primary flag.
C2_PrimaryIffCallerOrInput ==
    \A c \in Cores :
        pc[c] = "done" =>
            /\ DOMAIN BufArray = DOMAIN loc[c].mp_src
            /\ \A i \in DOMAIN BufArray :
                 PrimarySet(BufArray[i].flags)
                 <=> \/ ResolvesToCaller(c, BufArray[i].mpidr)
                     \/ PrimarySet(loc[c].mp_src[i].flags)
            /\ WellFormedInput(c) =>
                 /\ Cardinality(PrimaryRecords) = 1
                 /\ \A i \in PrimaryRecords :
                      ResolvesToCaller(c, BufArray[i].mpidr)

\* A completed set-up of two records: the second is the calling core's and
\* gained the flag, the first carried the flag in the platform's array.
C2_Witness ==
    \E c \in Cores :
        /\ pc[c] = "done"
        /\ Len(loc[c].mp_src) = 2
        /\ ~ResolvesToCaller(c, BufArray[1].mpidr)
        /\ PrimarySet(loc[c].mp_src[1].flags)
        /\ ResolvesToCaller(c, BufArray[2].mpidr)
        /\ ~PrimarySet(loc[c].mp_src[2].flags)
        /\ PrimarySet(BufArray[2].flags)

(* -------------------------------- C3 ---------------------------------- *)

\* C3: after spm_sp_setup completes, the i-th record of the buffer has the
\* affinity identifier of the i-th record read from the platform, its flag
\* bits apart from the primary-core bit (and the primary-core bit if the
\* platform set it), and as linear index the platform lookup of its affinity
\* identifier (as the linear_id field holds the lookup's -1: all ones).
C3_RoundTrip ==
    \A c \in Cores :
        pc[c] = "done" =>
            /\ Len(BufArray) = Len(loc[c].mp_src)
            /\ \A i \in DOMAIN loc[c].mp_src :
                 LET in == loc[c].mp_src[i]
                     out == BufArray[i]
                     pos == plat_core_pos_by_mpidr(in.mpidr) IN
                 /\ out.mpidr = in.mpidr
                 /\ OtherFlags(out.flags) = OtherFlags(in.flags)
                 /\ PrimarySet(in.flags) => PrimarySet(out.flags)
                 /\ pos >= 0 => out.linear_id = pos
                 /\ pos < 0 => out.linear_id = 2 ^ LinearIdBits + pos

\* A completed set-up of two different records, one the calling core's with
\* another flag set, one of an affinity identifier the platform does not know.
C3_Witness ==
    \E c \in Cores :
        /\ pc[c] = "done"
        /\ Len(loc[c].mp_src) = 2
        /\ ResolvesToCaller(c, loc[c].mp_src[1].mpidr)
        /\ loc[c].mp_src[1].flags = MP_INFO_FLAG_OTHER
        /\ BufArray[1].flags = MP_INFO_FLAG_OTHER + MP_INFO_FLAG_PRIMARY_CPU
        /\ loc[c].mp_src[2].mpidr = BadMpidr
        /\ BufArray[2].linear_id # 0

(* -------------------------------- C4 ---------------------------------- *)

\* C4: in every state after the pointer is patched, the mp_info field of the
\* buffer's boot information record is PLAT_SPM_BUF_BASE +
\* sizeof(secure_partition_boot_info_t) (a uintptr_t) and is not the address
\* of the platform's array; once the array is copied, it lies from exactly
\* that address.
C4_PatchedPointer ==
    \A c \in Cores :
        AfterPatch(c) =>
            /\ BufMpInfoField = Wrap(PLAT_SPM_BUF_BASE + BootInfoSize)
            /\ BufMpInfoField # PlatMpAddr
            /\ pc[c] \in {"annotate", "done"} =>
                 /\ loc[c].sp_mp_info = Wrap(PLAT_SPM_BUF_BASE + BootInfoSize)
                 /\ Range(Wrap(PLAT_SPM_BUF_BASE + BootInfoSize),
                          Len(loc[c].mp_src) * MpInfoSize) \subseteq wlog[c]
                 /\ \A i \in DOMAIN loc[c].mp_src :
                      mem[Wrap(PLAT_SPM_BUF_BASE + BootInfoSize
                               + (i - 1) * MpInfoSize + OFF_MPIDR)]
                      = loc[c].mp_src[i].mpidr

\* A completed set-up that copied the platform's array of two records.
C4_Witness ==
    \E c \in Cores :
        /\ pc[c] = "done"
        /\ ENABLE_ASSERTIONS
        /\ plat_boot_info.mp_info = PlatMpAddr
        /\ Len(loc[c].mp_src) = 2
        /\ BufMpInfoField = PLAT_SPM_BUF_BASE + BootInfoSize

(* -------------------------------- C5 ---------------------------------- *)

\* C5: once the entry point is configured, the descriptor applied to the
\* context has arguments 0..3 equal to PLAT_SPM_BUF_BASE, PLAT_SPM_BUF_SIZE,
\* PLAT_SPM_COOKIE_0, PLAT_SPM_COOKIE_1, arguments 4..7 equal to zero, and
\* BL32_BASE as program counter.
C5_EntryPointArgs ==
    \A c \in Cores :
        pc[c] \notin {"idle", "ep_info"} =>
            /\ ctx[c].ep_info.args[0] = PLAT_SPM_BUF_BASE
            /\ ctx[c].ep_info.args[1] = PLAT_SPM_BUF_SIZE
            /\ ctx[c].ep_info.args[2] = PLAT_SPM_COOKIE_0
            /\ ctx[c].ep_info.args[3] = PLAT_SPM_COOKIE_1
            /\ \A i \in 4 .. 7 : ctx[c].ep_info.args[i] = 0
            /\ ctx[c].ep_info.pc = BL32_BASE

\* The entry point has just been configured, for a buffer whose base and size
\* differ.
C5_Witness ==
    \E c \in Cores :
        /\ pc[c] = "sp_el0"
        /\ PLAT_SPM_BUF_BASE # PLAT_SPM_BUF_SIZE
        /\ ctx[c].ep_info.args[0] = PLAT_SPM_BUF_BASE

(* -------------------------------- C6 ---------------------------------- *)

\* Core c has added no region and written none of MAIR_EL1, TCR_EL1,
\* TTBR0_EL1, and has not gone past the granule check.
NothingInstalled(c) ==
    /\ ctx[c].regions = {}
    /\ ~ctx[c].tables_ready
    /\ ctx[c].sysregs_written \cap MmuRegs = {}
    /\ pc[c] \in {"idle", "ep_info", "sp_el0", "granule", "abort"}

\* C6 as stated: if the NS buffer base or size is not aligned to the maximum
\* granule, the set-up aborts before any region is added and before any
\* paging-control register is written.
C6_MisalignedAborts ==
    \A c \in Cores : NsBufMisaligned => NothingInstalled(c)

\* C6 (amended): in a build with assertions enabled, if the NS buffer base or
\* size is not aligned to the maximum granule, the set-up aborts before any
\* region is added and before any paging-control register is written.
C6_MisalignedAbortsWithAssertions ==
    \A c \in Cores :
        (ENABLE_ASSERTIONS /\ NsBufMisaligned) => NothingInstalled(c)

\* The set-up aborted on a misaligned size, the base being aligned.
C6_Witness ==
    \E c \in Cores :
        /\ pc[c] = "abort"
        /\ loc[c].failed = "ns_buf_size"
        /\ (PLAT_SP_IMAGE_NS_BUF_BASE % MAX_GRANULE) = 0
        /\ ctx[c].regions = {}

(* -------------------------------- C7 ---------------------------------- *)

\* Core c has written nothing to memory and taken no step of the marshalling
\* after the boot information was asked for.
NothingMarshalled(c) ==
    /\ wlog[c] = {}
    /\ mem = [a \in Addr |-> 0]
    /\ pc[c] \notin AfterGetBootInfo

\* C7 as stated: if the platform returns a null boot information record, the
\* set-up aborts: the buffer is not written and no later step is taken.
C7_NullBootInfoAborts ==
    \A c \in Cores : plat_boot_info.isnull => NothingMarshalled(c)

\* C7 (amended): in a build with assertions enabled, if the platform returns
\* a null boot information record, the set-up aborts: the buffer is not
\* written and no later step is taken.
C7_NullBootInfoAbortsWithAssertions ==
    \A c \in Cores :
        (ENABLE_ASSERTIONS /\ plat_boot_info.isnull) => NothingMarshalled(c)

\* The set-up aborted on the null boot information record.
C7_Witness ==
    \E c \in Cores :
        /\ pc[c] = "abort"
        /\ loc[c].failed = "boot_info_null"
        /\ plat_boot_info.isnull
        /\ wlog[c] = {}

(* -------------------------------- C8 ---------------------------------- *)

\* The cores whose invocation has written the shared buffer.
BufferWriters == {c \in Cores : wlog[c] # {}}

\* C8: whatever cores invoke the set-up, and however their invocations
\* interleave, at most one invocation writes the shared buffer.
C8_SingleMarshaller == Cardinality(BufferWriters) <= 1

(* -------------------------------- C9 ---------------------------------- *)

\* The step that follows each step of spm_sp_setup.
FollowingStep ==
    [l \in {"idle", "ep_info", "sp_el0", "granule", "mmap", "mmu_regs",
            "sctlr", "sysregs"} \cup MarshalSteps |->
        CASE l = "idle" -> "ep_info"
          [] l = "ep_info" -> "sp_el0"
          [] l = "sp_el0" -> "granule"
          [] l = "granule" -> "mmap"
          [] l = "mmap" -> "mmu_regs"
          [] l = "mmu_regs" -> "sctlr"
          [] l = "sctlr" -> "sysregs"
          [] l = "sysregs" -> "validate_buf"
          [] l = "validate_buf" -> "get_boot_info"
          [] l = "get_boot_info" -> "copy_record"
          [] l = "copy_record" -> "check_mp_info"
          [] l = "check_mp_info" -> "patch_pointer"
          [] l = "patch_pointer" -> "validate_count"
          [] l = "validate_count" -> "copy_array"
          [] l = "copy_array" -> "annotate"
          [] l = "annotate" -> "done"]

\* The validation made at step l of core c fails.
ValidationFails(c, l) ==
    CASE l = "granule" -> NsBufMisaligned
      [] l = "validate_buf" ->
            \/ ~(Wrap(PLAT_SPM_BUF_BASE + BootInfoSize)
                   <= Wrap(PLAT_SPM_BUF_BASE + PLAT_SPM_BUF_SIZE))
            \/ ~(PLAT_SPM_BUF_BASE <= Wrap(UINTPTR_MAX - PLAT_SPM_BUF_SIZE + 1))
      [] l = "get_boot_info" -> plat_boot_info.isnull
      [] l = "check_mp_info" ->
            mem[Wrap(loc[c].shared_buf_ptr + OFF_MP_INFO)] = NULL
      [] l = "validate_count" ->
            \/ loc[c].sp_boot_info.num_cpus > PLATFORM_CORE_COUNT
            \/ ~(loc[c].shared_buf_ptr
                   <= Wrap(PLAT_SPM_BUF_BASE + PLAT_SPM_BUF_SIZE
                           - loc[c].sp_boot_info.num_cpus * MpInfoSize))
      [] OTHER -> FALSE

\* One step of core c keeps the order of spm_sp_setup.
KeepsOrder(c) ==
    \* an ended run takes no step
    /\ pc[c] \in {"done", "abort", "fault"} =>
         /\ pc'[c] = pc[c]
         /\ <<ctx'[c], loc'[c], wlog'[c]>> = <<ctx[c], loc[c], wlog[c]>>
    \* a step goes to the following step, to the abort state from a failed
    \* validation, or to a fault from a read through a null pointer
    /\ pc'[c] # pc[c] =>
         /\ pc[c] \in DOMAIN FollowingStep
         /\ IF ENABLE_ASSERTIONS /\ ValidationFails(c, pc[c])
            THEN pc'[c] = "abort"
            ELSE \/ pc'[c] = FollowingStep[pc[c]]
                 \/ /\ pc'[c] = "fault"
                    /\ ~ENABLE_ASSERTIONS
                    /\ pc[c] \in {"copy_record", "copy_array"}
    \* only the loop over the array stays at its step, one record further
    /\ (pc'[c] = pc[c] /\ <<ctx'[c], loc'[c], wlog'[c]>> # <<ctx[c], loc[c], wlog[c]>>) =>
         /\ pc[c] = "annotate"
         /\ loc'[c].index = loc[c].index + 1
    \* memory is written by the copies, the patch and the loop alone
    /\ wlog'[c] # wlog[c] =>
         pc[c] \in {"copy_record", "patch_pointer", "copy_array", "annotate"}

C10_SctlrBits ==
    \A c \in Cores :
        "SCTLR_EL1" \in ctx[c].sysregs_written =>
            /\ \A b \in {"UCI", "WXN", "NTWI", "NTWE", "UCT", "DZE", "SA0",
                         "C", "I", "M"} : b \in ctx[c].sctlr
            /\ \A b \in {"E0E", "A", "UMA"} : b \notin ctx[c].sctlr
            /\ \A b \in {"SA", "EE"} :
                 b \in ctx[c].sctlr <=> b \in loc[c].sctlr_el1

\* SCTLR_EL1 written from a prior value that had a bit of the clear set and
\* another bit set, and lacked a bit of the enable set and another bit.
C10_Witness ==
    \E c \in Cores :
        /\ "SCTLR_EL1" \in ctx[c].sysregs_written
        /\ "A" \in loc[c].sctlr_el1
        /\ "M" \notin loc[c].sctlr_el1
        /\ "EE" \in loc[c].sctlr_el1
        /\ "SA" \notin loc[c].sctlr_el1

(* -------------------------------- C11 --------------------------------- *)

\* Core c has passed the two assertions on the buffer and written to memory.
PassedBufValidation(c) ==
    /\ pc[c] \in (MarshalSteps \ {"validate_buf"}) \cup {"done", "abort"}
    /\ loc[c].failed \notin {"ns_buf_base", "ns_buf_size", "record_fits",
                             "no_overflow"}
    /\ wlog[c] # {}

\* C11: with assertions enabled, whenever the set-up has passed the two
\* assertions on the buffer and written the shared buffer, PLAT_SPM_BUF_BASE +
\* PLAT_SPM_BUF_SIZE as the machine computes it (modulo 2^AddrBits) has not
\* wrapped around: the buffer's end address is not below its base.
C11_EndNotWrapped ==
    \A c \in Cores :
        (ENABLE_ASSERTIONS /\ PassedBufValidation(c)) =>
            /\ PLAT_SPM_BUF_BASE + PLAT_SPM_BUF_SIZE
                 = Wrap(PLAT_SPM_BUF_BASE + PLAT_SPM_BUF_SIZE)
            /\ PLAT_SPM_BUF_BASE <= Wrap(PLAT_SPM_BUF_BASE + PLAT_SPM_BUF_SIZE)

(* -------------------------------- C12 --------------------------------- *)

\* The cells the copy of the MP information array of core c has written.
ArrayCopyCells(c) ==
    Range(loc[c].sp_mp_info, Len(loc[c].mp_src) * MpInfoSize)

\* Core c has copied the array, of a core count with which the records do not
\* fit the buffer capacity.
CopiedTooMany(c) ==
    /\ pc[c] \in {"annotate", "done"}
    /\ ~RecordsFit(loc[c].sp_boot_info.num_cpus)

\* The set-up of core c read, or is to read, through a null pointer: a null
\* boot information record, or a null array of a core count that is not zero.
NullRead(c) ==
    \/ plat_boot_info.isnull
    \/ loc[c].sp_mp_info = NULL /\ loc[c].sp_boot_info.num_cpus > 0

\* C12 as stated: without assertions the set-up has no abort state, no
\* violated invariant is reported and the set-up goes on to the end; with a
\* core count with which the records exceed the buffer capacity, the copy of
\* the array writes beyond the end of the buffer.
C12_ProductionRunsToEnd ==
    \A c \in Cores :
        ~ENABLE_ASSERTIONS =>
            /\ pc[c] \notin {"abort", "fault"}
            /\ loc[c].failed = "none"
            /\ CopiedTooMany(c) => ~(ArrayCopyCells(c) \subseteq BufCells)

\* C12 (amended): without assertions the set-up has no abort state and no
\* violated invariant is reported; it stops short of the end only by a fault
\* of a read through a null pointer; once the array is copied with a core
\* count with which the records exceed the buffer capacity, the run has
\* written beyond the buffer: the copy of the array has if the core count is
\* not zero, the copy of the record if the capacity is below the record's size.
C12_ProductionNoAbort ==
    \A c \in Cores :
        ~ENABLE_ASSERTIONS =>
            /\ pc[c] # "abort"
            /\ loc[c].failed \in {"none", "null_boot_info_read",
                                  "null_mp_info_read"}
            /\ pc[c] = "fault" => NullRead(c)
            /\ CopiedTooMany(c) =>
                 /\ ~(wlog[c] \subseteq BufCells)
                 /\ loc[c].sp_boot_info.num_cpus > 0 =>
                      ~(ArrayCopyCells(c) \subseteq BufCells)
                 /\ loc[c].sp_boot_info.num_cpus = 0 =>
                      /\ PLAT_SPM_BUF_SIZE < BootInfoSize
                      /\ ~(Range(PLAT_SPM_BUF_BASE, BootInfoSize)
                             \subseteq BufCells)

\* A set-up without assertions that ran to the end with a misaligned NS
\* buffer and more cores than the platform has, and wrote beyond the buffer.
C12_Witness ==
    \E c \in Cores :
        /\ ~ENABLE_ASSERTIONS
        /\ pc[c] = "done"
        /\ NsBufMisaligned
        /\ loc[c].sp_boot_info.num_cpus > PLATFORM_CORE_COUNT
        /\ ~RecordsFit(loc[c].sp_boot_info.num_cpus)
        /\ \E a \in wlog[c] : a >= PLAT_SPM_BUF_BASE + PLAT_SPM_BUF_SIZE

(* -------------------------------- C13 --------------------------------- *)

\* C13 as stated: once CPACR_EL1 is written, its FPEN field is "no trap" and
\* its ZEN field is what the context held just before the write.
C13_ZenUntouched ==
    \A c \in Cores :
        "CPACR_EL1" \in ctx[c].sysregs_written =>
            /\ ctx[c].cpacr.fpen = "TRAP_NONE"
            /\ ctx[c].cpacr.zen = loc[c].cpacr_before.zen

\* C13 (amended): once CPACR_EL1 is written, its FPEN field is "no trap" and
\* every other field is zero whatever the context held before the write:
\* TTA does not trap, and ZEN traps SVE at EL1 and EL0; so the ZEN field is
\* as it was before the write only if it was zero already.
C13_CpacrReplaced ==
    \A c \in Cores :
        "CPACR_EL1" \in ctx[c].sysregs_written =>
            /\ ctx[c].cpacr.fpen = "TRAP_NONE"
            /\ ctx[c].cpacr.tta = 0
            /\ ctx[c].cpacr.zen = "TRAP_ALL"
            /\ (ctx[c].cpacr.zen = loc[c].cpacr_before.zen)
                 <=> (loc[c].cpacr_before.zen = "TRAP_ALL")

\* CPACR_EL1 written over a value that trapped FP/SIMD, trapped the trace
\* registers and did not trap SVE.
C13_Witness ==
    \E c \in Cores :
        /\ "CPACR_EL1" \in ctx[c].sysregs_written
        /\ loc[c].cpacr_before =
             [fpen |-> "TRAP_ALL", tta |-> 1, zen |-> "TRAP_NONE"]
        /\ ctx[c].cpacr.zen = "TRAP_ALL"

(* -------------------------------- C14 --------------------------------- *)

\* The platform's boot information record is not null, its mp_info is.
NullMpInfo == ~plat_boot_info.isnull /\ plat_boot_info.mp_info = NULL

\* Core c has not gone past the check of sp_mp_info: the pointer of the
\* buffer's record is not patched, and no MP information record is copied
\* or annotated.
NothingPatched(c) ==
    /\ pc[c] \notin {"patch_pointer", "validate_count", "copy_array",
                     "annotate", "done", "fault"}
    /\ BufMpInfoField = NULL
    /\ wlog[c] \subseteq Range(PLAT_SPM_BUF_BASE, BootInfoSize)
    /\ loc[c].mp_src = <<>>
    /\ loc[c].index = 0
    /\ loc[c].failed \notin {"num_cpus", "array_fits"}
    /\ pc[c] = "abort" =>
         (wlog[c] # {} <=> loc[c].failed = "mp_info_null")

\* C14: with assertions enabled, if the platform's boot information record
\* is not null and its mp_info is null, the set-up aborts before the pointer
\* of the buffer's record is patched and before any MP information record is
\* copied or annotated, whatever num_cpus is (zero included).
C14_NullMpInfoAborts ==
    \A c \in Cores :
        (ENABLE_ASSERTIONS /\ NullMpInfo) => NothingPatched(c)

\* The set-up aborted on the null mp_info of a record of no core, after it
\* copied the record.
C14_Witness ==
    \E c \in Cores :
        /\ pc[c] = "abort"
        /\ loc[c].failed = "mp_info_null"
        /\ NullMpInfo
        /\ plat_boot_info.num_cpus = 0
        /\ wlog[c] = Range(PLAT_SPM_BUF_BASE, BootInfoSize)

====
